---- MODULE Spec2Model ----
(***************************************************************************)
(* EV telemetry dashboard (Dash): DataHandler (src/data_handler.py) and    *)
(* the callbacks of DashboardApp (src/main_dashboard.py).                  *)
(*                                                                         *)
(* Numbers are integers in fixed raw units:                                *)
(*   Vehicle_Speed, HV_Battery_SOC, HV_Battery_Voltage : hundredths        *)
(*   Power : W        Accum_Energy : tenths of a Wh                        *)
(*   Latitude, Longitude : an opaque integer per position                  *)
(* A missing value (Python None, an unparsable CSV cell, NaT) is the empty *)
(* sequence <<>>; a present value n is <<n>>.                              *)
(***************************************************************************)
EXTENDS Integers, Sequences, FiniteSets, Bags, TLC

VARIABLES
    csv,                \* the rows of the CSV file, in file order
    df,                 \* DataHandler.df
    query,              \* the last DataHandler query and what it returned
    n_intervals,        \* interval-component.n_intervals
    vehicle_sel,        \* vehicle-selector-{1,2}.value
    trip_sel,           \* trip-selector-{1,2}.value
    trip_options,       \* trip-selector-{1,2}.options
    cycle_start_store,  \* cycle-start-store.data
    fig,                \* vehicle-map.figure: the traces, in the order added
    metrics,            \* the children of the 14 text-* outputs
    callback_error,     \* the last update_multi_trip_dashboard call raised
    pending,            \* the page-load callbacks that have not run yet
    last_event,         \* the callback that ran last
    sim,                \* SimulationState of the round-trip engine
    rt_tick,            \* the round-trip engine's tick source
    rt_trip             \* the TripRecord the round-trip engine replays

storeVars == <<csv, df, query>>
dashVars == <<n_intervals, vehicle_sel, trip_sel, trip_options, cycle_start_store,
              fig, metrics, callback_error, pending, last_event>>
rtVars == <<sim, rt_tick, rt_trip>>
vars == <<csv, df, query, n_intervals, vehicle_sel, trip_sel, trip_options,
          cycle_start_store, fig, metrics, callback_error, pending, last_event,
          sim, rt_tick, rt_trip>>

None == <<>>
Some(x) == <<x>>

Min(a, b) == IF a <= b THEN a ELSE b
Max(a, b) == IF a >= b THEN a ELSE b

RECURSIVE SetToSortedSeq(_)
\* Python sorted() over a set of integers.
SetToSortedSeq(S) ==
    IF S = {} THEN <<>>
    ELSE LET m == CHOOSE x \in S : \A y \in S : x <= y
         IN  <<m>> \o SetToSortedSeq(S \ {m})

Range(s) == {s[k] : k \in DOMAIN s}

(***************************************************************************)
(* DataHandler                                                             *)
(***************************************************************************)

\* One CSV row. TimestampMs is the 'Timestamp(ms)' cell: <<ms>> or <<>>.
Row(veh, trip, tsCell, lat, lon, speed, soc, volt, power, energy) ==
    [VehId |-> veh, Trip |-> trip, TimestampMs |-> tsCell,
     Latitude |-> lat, Longitude |-> lon, Vehicle_Speed |-> speed,
     HV_Battery_SOC |-> soc, HV_Battery_Voltage |-> volt,
     Power |-> power, Accum_Energy |-> energy]

\* pd.to_datetime(cell, unit='ms', errors='coerce'): NaT for a cell that is
\* no number, else the instant ms milliseconds after the epoch.
to_datetime(cell) == IF cell = <<>> THEN None ELSE Some(cell[1])

\* df['Timestamp'] = pd.to_datetime(df['Timestamp(ms)'], ...)
with_timestamp(rows) ==
    [k \in DOMAIN rows |->
        [VehId |-> rows[k].VehId, Trip |-> rows[k].Trip,
         TimestampMs |-> rows[k].TimestampMs,
         Latitude |-> rows[k].Latitude, Longitude |-> rows[k].Longitude,
         Vehicle_Speed |-> rows[k].Vehicle_Speed,
         HV_Battery_SOC |-> rows[k].HV_Battery_SOC,
         HV_Battery_Voltage |-> rows[k].HV_Battery_Voltage,
         Power |-> rows[k].Power, Accum_Energy |-> rows[k].Accum_Energy,
         Timestamp |-> to_datetime(rows[k].TimestampMs)]]

IsValidTimestamp(r) == r.Timestamp # None

\* df.dropna(subset=['Timestamp'])
dropna(rows) == SelectSeq(rows, IsValidTimestamp)

\* df.sort_values('Timestamp'): pandas' default quicksort is not stable, so
\* rows of equal Timestamp may come out in any order. Every ascending
\* arrangement of the rows: a row goes after the rows of earlier Timestamp,
\* at a place among its equals that a tie-break t picks.
SortOutcomes(rows) ==
    LET n == Len(rows)
        ts(i) == rows[i].Timestamp[1]
        earlier(i) == Cardinality({j \in 1 .. n : ts(j) < ts(i)})
        equals(i) == {j \in 1 .. n : ts(j) = ts(i)}
        m == IF n = 0 THEN 1
             ELSE CHOOSE c \in 1 .. n :
                    /\ \E i \in 1 .. n : Cardinality(equals(i)) = c
                    /\ \A i \in 1 .. n : Cardinality(equals(i)) <= c
        tiebreaks == {t \in [1 .. n -> 0 .. m - 1] :
                        \A i \in 1 .. n :
                            /\ t[i] < Cardinality(equals(i))
                            /\ \A j \in equals(i) : j # i => t[j] # t[i]}
    IN  {[k \in 1 .. n |-> rows[CHOOSE i \in 1 .. n : earlier(i) + t[i] + 1 = k]] :
            t \in tiebreaks}

\* Mutant of sort_values: the rows stay in file order.
sort_values_skipped(rows) == {rows}

sort_values(rows) == SortOutcomes(rows)

\* DataHandler._load_and_prepare_data: every DataFrame the load may produce.
load_and_prepare_data(rows) == sort_values(dropna(with_timestamp(rows)))

\* DataHandler.get_trip_data: boolean-mask filter, order kept, then
\* reset_index(drop=True), which renumbers the rows from 0 (a sequence's
\* k-th element is row k-1). A None id equals no VehId / Trip.
get_trip_data(frame, vehicle_id, trip_id) ==
    LET Matches(r) == Some(r.VehId) = vehicle_id /\ Some(r.Trip) = trip_id
    IN  SelectSeq(frame, Matches)

\* DataHandler.get_all_vehicles
get_all_vehicles(frame) == SetToSortedSeq({frame[k].VehId : k \in DOMAIN frame})

\* DataHandler.get_trips_for_vehicle
get_trips_for_vehicle(frame, vehicle_id) ==
    IF vehicle_id = None THEN <<>>
    ELSE SetToSortedSeq({frame[k].Trip :
                            k \in {j \in DOMAIN frame : Some(frame[j].VehId) = vehicle_id}})

(***************************************************************************)
(* DashboardApp: layout                                                    *)
(***************************************************************************)

Slots == 1 .. 2

trip_colors == <<"#BB86FC", "#03DAC6">>

default_vehicle_id == 455
default_trip_1 == 1197
default_trip_2 == 1648

\* [{'label': f'Trip {int(trip)}', 'value': trip} for trip in trips]
TripOptions(trips) ==
    [k \in DOMAIN trips |-> [label |-> <<"Trip", trips[k]>>, value |-> trips[k]]]

OptionValues(options) == {options[k].value : k \in DOMAIN options}

\* _create_layout: default_trip_options
default_trip_options(frame) ==
    IF default_vehicle_id \in Range(get_all_vehicles(frame))
    THEN TripOptions(get_trips_for_vehicle(frame, Some(default_vehicle_id)))
    ELSE <<>>

\* update_trip_options (one callback per slot)
update_trip_options(frame, selected_vehicle) ==
    IF selected_vehicle = None THEN <<>>
    ELSE TripOptions(get_trips_for_vehicle(frame, selected_vehicle))

(***************************************************************************)
(* Formatted metric strings. A string "<number> <unit>" is the record      *)
(* [kind |-> "num", val, unit] with val the number in units of its last    *)
(* printed digit; the placeholder "-- <unit>" is [kind |-> "dash", ...].   *)
(***************************************************************************)

\* x / d rounded to the nearest integer, as Python's format() prints a float.
\* Exactly halfway the float's binary value decides; here ties go to even,
\* and no value of the files below lies halfway.
RoundHalfEven(x, d) ==
    LET q == x \div d
        r == x % d
    IN  IF 2 * r < d THEN q
        ELSE IF 2 * r > d THEN q + 1
        ELSE IF q % 2 = 0 THEN q ELSE q + 1

Fmt(x, d, unit) == [kind |-> "num", val |-> RoundHalfEven(x, d), unit |-> unit]
Placeholder(unit) == [kind |-> "dash", val |-> 0, unit |-> unit]

\* The metric Outputs of update_multi_trip_dashboard, in the order declared:
\* the returned list's element k+1 goes to OutputIds[k].
OutputIds ==
    <<"text-velocidad-1", "text-soc-1", "text-voltaje-1", "text-potencia-1",
      "text-energia-1", "text-degradation-1", "text-mdr-1",
      "text-velocidad-2", "text-soc-2", "text-voltaje-2", "text-potencia-2",
      "text-energia-2", "text-degradation-2", "text-mdr-2">>

\* metrics_outputs = ["-- km/h", "-- %", "-- V", "-- kW", "-- kWh", "--", "--"] * 2
placeholder_outputs ==
    LET one == <<Placeholder("km/h"), Placeholder("%"), Placeholder("V"),
                 Placeholder("kW"), Placeholder("kWh"), Placeholder(""),
                 Placeholder("")>>
    IN  one \o one

\* The seven strings written for one non-empty slot from its current row.
slot_metrics(current_data) ==
    <<Fmt(current_data.Vehicle_Speed, 10, "km/h"),
      Fmt(current_data.HV_Battery_SOC, 10, "%"),
      Fmt(current_data.HV_Battery_Voltage, 10, "V"),
      Fmt(current_data.Power, 10, "kW"),
      Fmt(current_data.Accum_Energy, 10, "kWh"),
      Placeholder(""),
      Placeholder("")>>

\* The children of the text-* components as the layout creates them.
layout_metrics ==
    [id \in Range(OutputIds) |->
        placeholder_outputs[CHOOSE k \in DOMAIN OutputIds : OutputIds[k] = id]]

(***************************************************************************)
(* DashboardApp: update_multi_trip_dashboard                               *)
(***************************************************************************)

TARGET_SIMULATION_SECONDS == 40
INTERVAL_MS == 500

total_ticks_for_sim == (TARGET_SIMULATION_SECONDS * 1000) \div INTERVAL_MS

CeilDiv(a, b) == (a + b - 1) \div b

trip_durations(trip_dfs) == [i \in Slots |-> Len(trip_dfs[i])]

\* max(durations) if any(d for d in durations if d > 0) else 0
max_duration(durations) ==
    IF \E i \in Slots : durations[i] > 0
    THEN Max(durations[1], durations[2])
    ELSE 0

\* Mutant of step_size: the quotient is truncated instead of rounded up.
step_size_truncated(maxd) ==
    IF maxd > 0 /\ total_ticks_for_sim > 0
    THEN Max(1, maxd \div total_ticks_for_sim)
    ELSE 1

step_size(maxd) ==
    IF maxd > 0 /\ total_ticks_for_sim > 0
    THEN Max(1, CeilDiv(maxd, total_ticks_for_sim))
    ELSE 1

current_data_index(n, cycle_start_interval, maxd) ==
    LET unwrapped == IF cycle_start_interval = None \/ maxd = 0
                     THEN 0
                     ELSE (n - cycle_start_interval[1]) * step_size(maxd)
    IN  IF maxd > 0 THEN unwrapped % maxd ELSE 0

\* Mutant of current_index: the shared index is used as it is, unclamped.
current_index_unclamped(cdi, duration) == cdi

\* min(current_data_index, duration - 1) if duration > 0 else 0
current_index(cdi, duration) ==
    IF duration > 0 THEN Min(cdi, duration - 1) ELSE 0

\* trip_df.iloc[idx] raises IndexError outside -len .. len-1.
iloc_in_bounds(trip_df, idx) == idx >= 0 - Len(trip_df) /\ idx < Len(trip_df)
iloc(trip_df, idx) ==
    IF idx >= 0 THEN trip_df[idx + 1] ELSE trip_df[Len(trip_df) + idx + 1]

\* trip_df.iloc[:stop]
iloc_head(trip_df, stop) ==
    SubSeq(trip_df, 1, IF stop >= 0 THEN Min(stop, Len(trip_df))
                       ELSE Max(0, Len(trip_df) + stop))

\* Mutant of path_so_far: the slice stops before the current sample.
path_before_current(trip_df, idx) == iloc_head(trip_df, idx)

\* path_so_far = trip_df.iloc[:current_index + 1]
path_so_far(trip_df, idx) == iloc_head(trip_df, idx + 1)

Column(frame, col) == [k \in DOMAIN frame |-> frame[k][col]]

\* The two traces added for a non-empty slot: the route line, then the car.
slot_traces(i, trip_df, idx) ==
    <<[mode |-> "lines", color |-> trip_colors[i],
       lat |-> Column(path_so_far(trip_df, idx), "Latitude"),
       lon |-> Column(path_so_far(trip_df, idx), "Longitude")],
      [mode |-> "markers", color |-> trip_colors[i],
       lat |-> <<iloc(trip_df, idx).Latitude>>,
       lon |-> <<iloc(trip_df, idx).Longitude>>]>>

\* Mutant of trip_is_shown: the emptiness test is left out.
trip_is_shown_always(trip_df) == TRUE

\* if not trip_df.empty
trip_is_shown(trip_df) == Len(trip_df) > 0

\* What one call returns: raised (an exception left every output as it was) or
\* the figure's traces and the 14 metric strings.
update_multi_trip_dashboard(n, vehicle_ids, trip_ids, cycle_start_interval, frame) ==
    LET trip_dfs == [i \in Slots |-> get_trip_data(frame, vehicle_ids[i], trip_ids[i])]
        durations == trip_durations(trip_dfs)
        maxd == max_duration(durations)
        cdi == current_data_index(n, cycle_start_interval, maxd)
        idx == [i \in Slots |-> current_index(cdi, durations[i])]
        shown == {i \in Slots : trip_is_shown(trip_dfs[i])}
        traces(i) == IF i \in shown THEN slot_traces(i, trip_dfs[i], idx[i]) ELSE <<>>
        texts(i) == IF i \in shown THEN slot_metrics(iloc(trip_dfs[i], idx[i]))
                    ELSE SubSeq(placeholder_outputs, (i - 1) * 7 + 1, i * 7)
        outputs == texts(1) \o texts(2)
    IN  IF \E i \in shown : ~iloc_in_bounds(trip_dfs[i], idx[i])
        THEN [raised |-> TRUE, fig |-> <<>>, metrics |-> layout_metrics]
        ELSE [raised |-> FALSE,
              fig |-> traces(1) \o traces(2),
              metrics |-> [id \in Range(OutputIds) |->
                  outputs[CHOOSE k \in DOMAIN OutputIds : OutputIds[k] = id]]]

\* Mutant of reset_simulation_cycle: the tick before the current one.
reset_to_previous_tick(trip1, trip2, n) == Some(Max(0, n - 1))

\* reset_simulation_cycle: the new cycle-start-store.data
reset_simulation_cycle(trip1, trip2, n) == Some(n)

(***************************************************************************)
(* The CSV files the model loads                                           *)
(***************************************************************************)

MaxTick == 4            \* ticks of the interval component in Spec
MaxReplayTick == 83     \* ticks of the interval component in SpecReplay
MaxSelectTick == 2      \* SpecReplay: the user changes trips before this tick

\* Sample k (from 1) of a trip, with values that differ from row to row
\* (all even, so none is halfway between two printed values).
Sample(veh, trip, k, ts, soc) ==
    Row(veh, trip, ts, trip * 1000 + k, veh * 1000 + k,
        1234 + 106 * k, soc, 35002 - 12 * k, 15004 - 2002 * k, 96 * k)

Reverse(s) == [k \in DOMAIN s |-> s[Len(s) + 1 - k]]

\* Vehicle 455: trip 1197 (3 rows: the battery reads 0 in the second and below
\* 0 in the third) and trip 1648 (2 rows); vehicle 10: trip 1197 (1 row). The file is not in
\* time order and one row of (455, 1197) has no usable timestamp.
SmallCsv ==
    <<Sample(455, 1197, 3, Some(300), 0 - 30),
      Sample(10, 1197, 1, Some(150), 7100),
      Sample(455, 1648, 1, Some(110), 9050),
      Sample(455, 1197, 9, None, 5500),
      Sample(455, 1197, 1, Some(100), 8000),
      Sample(455, 1648, 2, Some(210), 8950),
      Sample(455, 1197, 2, Some(200), 0)>>

TripRows(veh, trip, count, ts0) ==
    [k \in 1 .. count |-> Sample(veh, trip, k, Some(ts0 + k), 9000 - 12 * k)]

\* Vehicle 455 with a trip longer than total_ticks_for_sim (1197: 81 rows), one
\* of exactly that length (1648: 80 rows) and a short one (1700: 3 rows),
\* written latest row first.
ReplayCsv ==
    Reverse(TripRows(455, 1197, total_ticks_for_sim + 1, 1000)
            \o TripRows(455, 1648, total_ticks_for_sim, 2000)
            \o TripRows(455, 1700, 3, 3000))

(***************************************************************************)
(* State machine of the dashboard                                          *)
(***************************************************************************)

NoQuery == [fn |-> "none", vehicle_id |-> None, trip_id |-> None, rows |-> <<>>, ids |-> <<>>]

\* DashboardApp.__init__: DataHandler(filepath), then _create_layout.
InitDash(file) ==
    /\ csv = file
    /\ df \in load_and_prepare_data(file)
    /\ query = NoQuery
    /\ n_intervals = 0
    /\ vehicle_sel = [i \in Slots |-> Some(default_vehicle_id)]
    /\ trip_sel = [i \in Slots |-> IF i = 1 THEN Some(default_trip_1) ELSE Some(default_trip_2)]
    /\ trip_options = [i \in Slots |-> default_trip_options(df)]
    /\ cycle_start_store = None
    /\ fig = <<>>
    /\ metrics = layout_metrics
    /\ callback_error = FALSE
    /\ pending = {"reset_simulation_cycle", "update_multi_trip_dashboard"}
    /\ last_event = "_create_layout"

\* One call of update_multi_trip_dashboard for tick n with the State values
\* of the moment; an exception leaves the figure and the texts as they were.
RunUpdate(n) ==
    LET r == update_multi_trip_dashboard(n, vehicle_sel, trip_sel, cycle_start_store, df)
    IN  IF r.raised
        THEN callback_error' = TRUE /\ UNCHANGED <<fig, metrics>>
        ELSE callback_error' = FALSE /\ fig' = r.fig /\ metrics' = r.metrics

\* Page load fires every callback once; these two in either order.
InitialReset ==
    /\ "reset_simulation_cycle" \in pending
    /\ pending' = pending \ {"reset_simulation_cycle"}
    /\ last_event' = "reset_simulation_cycle"
    /\ cycle_start_store' = reset_simulation_cycle(trip_sel[1], trip_sel[2], n_intervals)
    /\ UNCHANGED <<n_intervals, vehicle_sel, trip_sel, trip_options, fig, metrics,
                   callback_error>>
    /\ UNCHANGED <<storeVars, rtVars>>

InitialUpdate ==
    /\ "update_multi_trip_dashboard" \in pending
    /\ pending' = pending \ {"update_multi_trip_dashboard"}
    /\ last_event' = "update_multi_trip_dashboard"
    /\ RunUpdate(n_intervals)
    /\ UNCHANGED <<n_intervals, vehicle_sel, trip_sel, trip_options, cycle_start_store>>
    /\ UNCHANGED <<storeVars, rtVars>>

\* The interval component fires: n_intervals grows by one and the dashboard
\* callback runs.
Tick(lastTick) ==
    /\ pending = {}
    /\ n_intervals < lastTick
    /\ n_intervals' = n_intervals + 1
    /\ last_event' = "update_multi_trip_dashboard"
    /\ RunUpdate(n_intervals + 1)
    /\ UNCHANGED <<vehicle_sel, trip_sel, trip_options, cycle_start_store, pending>>
    /\ UNCHANGED <<storeVars, rtVars>>

\* The user picks (or clears) the vehicle of slot i: update_trip_options
\* rewrites that slot's trip options; the trip value stays.
SelectVehicle(i, v) ==
    /\ pending = {}
    /\ v # vehicle_sel[i]
    /\ IF v = None THEN TRUE ELSE v[1] \in Range(get_all_vehicles(df))
    /\ vehicle_sel' = [vehicle_sel EXCEPT ![i] = v]
    /\ trip_options' = [trip_options EXCEPT ![i] = update_trip_options(df, v)]
    /\ last_event' = "update_trip_options"
    /\ UNCHANGED <<n_intervals, trip_sel, cycle_start_store, fig, metrics,
                   callback_error, pending>>
    /\ UNCHANGED <<storeVars, rtVars>>

\* The user picks (or clears) the trip of slot i: reset_simulation_cycle runs.
SelectTrip(i, t) ==
    /\ pending = {}
    /\ t # trip_sel[i]
    /\ IF t = None THEN TRUE ELSE t[1] \in OptionValues(trip_options[i])
    /\ trip_sel' = [trip_sel EXCEPT ![i] = t]
    /\ cycle_start_store' =
           reset_simulation_cycle(trip_sel'[1], trip_sel'[2], n_intervals)
    /\ last_event' = "reset_simulation_cycle"
    /\ UNCHANGED <<n_intervals, vehicle_sel, trip_options, fig, metrics,
                   callback_error, pending>>
    /\ UNCHANGED <<storeVars, rtVars>>

VehicleChoices == {None} \cup {Some(r.VehId) : r \in Range(df)}
TripChoices == {None} \cup {Some(r.Trip) : r \in Range(df)}

InitRt ==
    /\ sim = None
    /\ rt_tick = 0
    /\ rt_trip = <<>>

Init == InitDash(SmallCsv) /\ InitRt

Next ==
    \/ InitialReset
    \/ InitialUpdate
    \/ Tick(MaxTick)
    \/ \E i \in Slots : \E v \in VehicleChoices : SelectVehicle(i, v)
    \/ \E i \in Slots : \E t \in TripChoices : SelectTrip(i, t)

Spec == Init /\ [][Next]_vars

InitReplay == InitDash(ReplayCsv) /\ InitRt

NextReplay ==
    \/ InitialReset
    \/ InitialUpdate
    \/ Tick(MaxReplayTick)
    \/ n_intervals < MaxSelectTick /\ \E i \in Slots : \E t \in TripChoices : SelectTrip(i, t)

SpecReplay == InitReplay /\ [][NextReplay]_vars

(***************************************************************************)
(* What the page shows, read back from the outputs                         *)
(***************************************************************************)

\* The rows the current selection of slot i names, and their number.
SlotTrip(i) == get_trip_data(df, vehicle_sel[i], trip_sel[i])
Duration(i) == Len(SlotTrip(i))
MaxDuration == max_duration([i \in Slots |-> Duration(i)])

\* The traces of slot i in the figure (a slot is told by its colour).
LineTraces(i) == {k \in DOMAIN fig : fig[k].mode = "lines" /\ fig[k].color = trip_colors[i]}
MarkerTraces(i) == {k \in DOMAIN fig : fig[k].mode = "markers" /\ fig[k].color = trip_colors[i]}
HasPath(i) == LineTraces(i) # {}
PathOf(i) == fig[CHOOSE k \in LineTraces(i) : TRUE]
MarkerOf(i) == fig[CHOOSE k \in MarkerTraces(i) : TRUE]

\* The sample index slot i displays: its path ends at that sample.
ShownIndex(i) == Len(PathOf(i).lat) - 1

\* The seven texts of slot i, in the order of the returned list.
SlotTexts(i) == [k \in 1 .. 7 |-> metrics[OutputIds[(i - 1) * 7 + k]]]

\* legStartTick of slot i: the one value cycle-start-store holds.
LegStartTick(i) == cycle_start_store

\* The outputs are those of a call made with the present inputs.
AdvanceNow ==
    update_multi_trip_dashboard(n_intervals, vehicle_sel, trip_sel, cycle_start_store, df)
\* update_multi_trip_dashboard has just run: the outputs are those of a call
\* with the present inputs. reset_simulation_cycle has just run.
Advanced == last_event = "update_multi_trip_dashboard"
JustReset == last_event = "reset_simulation_cycle"

(***************************************************************************)
(* C1  Looping playback index                                              *)
(***************************************************************************)

\* C1: after every call of update_multi_trip_dashboard at tick n with a
\* stored legStartTick s <= n, each non-empty slot of duration D displays
\* sample index (n - s) mod D, whatever the other slot's duration.
LoopingIndexClaim ==
    Advanced =>
        \A i \in Slots :
            (Duration(i) > 0 /\ cycle_start_store # None) =>
                /\ ~callback_error
                /\ HasPath(i)
                /\ ShownIndex(i) = (n_intervals - cycle_start_store[1]) % Duration(i)

(***************************************************************************)
(* C2  Reset determinism                                                   *)
(***************************************************************************)

\* C2: every run of reset_simulation_cycle at tick t leaves cycle-start-store
\* holding t, whatever it held, and a call of update_multi_trip_dashboard at
\* that tick then displays sample index 0 for every non-empty slot.
ResetDeterminism ==
    JustReset =>
        /\ cycle_start_store = Some(n_intervals)
        /\ ~AdvanceNow.raised
        /\ \A i \in Slots :
              Duration(i) > 0 =>
                \E k \in DOMAIN AdvanceNow.fig :
                    /\ AdvanceNow.fig[k].mode = "lines"
                    /\ AdvanceNow.fig[k].color = trip_colors[i]
                    /\ Len(AdvanceNow.fig[k].lat) - 1 = 0

\* A reset has happened after the page showed a later sample: the store holds
\* the present tick, past tick 0, while a slot still displays an index > 0.
ResetDeterminismWitness ==
    /\ JustReset
    /\ n_intervals > 0
    /\ cycle_start_store = Some(n_intervals)
    /\ \E i \in Slots : Duration(i) > 1 /\ HasPath(i) /\ ShownIndex(i) > 0

(***************************************************************************)
(* C3  Session independence                                                *)
(***************************************************************************)

\* C3: changing the trip of one slot leaves the other slot's legStartTick
\* as it was.
SessionIndependenceClaim ==
    [][\A i \in Slots :
        (trip_sel'[i] # trip_sel[i] /\ trip_sel'[3 - i] = trip_sel[3 - i]) =>
            LegStartTick(3 - i)' = LegStartTick(3 - i)]_vars

(***************************************************************************)
(* C4  Depletion halting                                                   *)
(***************************************************************************)

ShownSoc(i) == SlotTexts(i)[2]
Depleted(i) == HasPath(i) /\ ShownSoc(i).kind = "num" /\ ShownSoc(i).val <= 0

\* C4: the state of charge shown is never below 0, and once a call of
\* update_multi_trip_dashboard has shown a state of charge of 0, the next
\* call, with no reset_simulation_cycle in between, changes no output.
DepletionHaltingClaim ==
    /\ [](\A i \in Slots : ShownSoc(i).kind = "num" => ShownSoc(i).val >= 0)
    /\ [][(Advanced /\ (\E i \in Slots : Depleted(i)) /\ n_intervals' = n_intervals + 1)
            => (fig' = fig /\ metrics' = metrics)]_vars

(***************************************************************************)
(* C5  Empty selection                                                     *)
(***************************************************************************)

\* C5: after every call of update_multi_trip_dashboard, at any tick, a slot
\* whose selection has no rows (unknown or missing ids included) has raised
\* no error, has no path and no marker in the figure, and shows the seven
\* placeholder strings, whatever the other slot selects.
EmptySelection ==
    Advanced =>
        \A i \in Slots :
            Duration(i) = 0 =>
                /\ ~callback_error
                /\ LineTraces(i) = {}
                /\ MarkerTraces(i) = {}
                /\ SlotTexts(i) = SubSeq(placeholder_outputs, (i - 1) * 7 + 1, i * 7)

\* Slot 2 names a (vehicle, trip) pair the data does not hold, past tick 0,
\* while slot 1 is drawn.
EmptySelectionWitness ==
    /\ Advanced
    /\ n_intervals > 0
    /\ vehicle_sel[2] # None /\ trip_sel[2] # None /\ Duration(2) = 0
    /\ Duration(1) > 0 /\ HasPath(1)

(***************************************************************************)
(* C6  Path snapshot                                                       *)
(***************************************************************************)

\* The sample index the callback computes for slot i from the present inputs.
ComputedIndex(i) ==
    current_index(current_data_index(n_intervals, cycle_start_store, MaxDuration),
                  Duration(i))

\* C6: after every call of update_multi_trip_dashboard, each non-empty slot
\* has exactly one path, the positions of its samples 0..index in order, one
\* marker at the position of sample index, and the texts of that sample.
PathSnapshot ==
    Advanced =>
        /\ ~callback_error
        /\ \A i \in Slots :
              Duration(i) > 0 =>
                /\ Cardinality(LineTraces(i)) = 1
                /\ Cardinality(MarkerTraces(i)) = 1
                /\ Len(PathOf(i).lat) = ComputedIndex(i) + 1
                /\ PathOf(i).lat = [k \in 1 .. ComputedIndex(i) + 1 |-> SlotTrip(i)[k].Latitude]
                /\ PathOf(i).lon = [k \in 1 .. ComputedIndex(i) + 1 |-> SlotTrip(i)[k].Longitude]
                /\ MarkerOf(i).lat = <<SlotTrip(i)[ComputedIndex(i) + 1].Latitude>>
                /\ MarkerOf(i).lon = <<SlotTrip(i)[ComputedIndex(i) + 1].Longitude>>
                /\ SlotTexts(i) = slot_metrics(SlotTrip(i)[ComputedIndex(i) + 1])

\* Both slots are drawn, one two samples or more into its trip and the other
\* at a different sample.
PathSnapshotWitness ==
    /\ Advanced
    /\ HasPath(1) /\ HasPath(2)
    /\ ShownIndex(1) >= 2
    /\ ShownIndex(2) # ShownIndex(1)

(***************************************************************************)
(* C8  Risk probability                                                    *)
(***************************************************************************)

MaxDistanceKm == 150    \* the distances the risk curve is evaluated at

\* The calibration table of the example: (0, 0.0), (60, 0.0), (100, 1.0),
\* with the probability in thousandths.
CalibrationCurve == <<[x |-> 0, y |-> 0], [x |-> 60, y |-> 0], [x |-> 100, y |-> 1000]>>

\* DegradationCurve.interpolate: flat outside the table, linear between the
\* two control points around x.
interpolate(curve, x) ==
    IF x <= curve[1].x THEN curve[1].y
    ELSE IF x >= curve[Len(curve)].x THEN curve[Len(curve)].y
    ELSE LET k == CHOOSE j \in 1 .. Len(curve) - 1 : curve[j].x <= x /\ x < curve[j + 1].x
         IN  curve[k].y
             + ((curve[k + 1].y - curve[k].y) * (x - curve[k].x))
               \div (curve[k + 1].x - curve[k].x)

\* The text-mdr-i output: the seventh Output of slot i.
MdrText(i) == metrics[OutputIds[(i - 1) * 7 + 7]]

\* C8: after every call of update_multi_trip_dashboard the MDR text of each
\* non-empty slot is the number interpolate(d) for the distance d driven
\* (the source reads no distance column, so: for some d in 0..MaxDistanceKm),
\* where interpolate returns 0.5 at 80, 1.0 at 150 and 0.0 at -5.
RiskMetricClaim ==
    /\ interpolate(CalibrationCurve, 80) = 500
    /\ interpolate(CalibrationCurve, 150) = 1000
    /\ interpolate(CalibrationCurve, 0 - 5) = 0
    /\ Advanced =>
         \A i \in Slots :
            Duration(i) > 0 =>
                \E d \in 0 .. MaxDistanceKm :
                    MdrText(i) = [kind |-> "num", val |-> interpolate(CalibrationCurve, d),
                                  unit |-> ""]

(***************************************************************************)
(* C10  Accelerated replay                                                 *)
(***************************************************************************)

Longest(i) == Duration(i) > 0 /\ Duration(i) = MaxDuration
Elapsed == n_intervals - cycle_start_store[1]

\* max(1, ceil(maxDuration / 80))
ClaimedStep == Max(1, CeilDiv(MaxDuration, 80))

\* One tick's call follows another call with the selection and the store as
\* they were.
ConsecutiveCalls ==
    Advanced /\ ~callback_error /\ cycle_start_store # None
    /\ n_intervals' = n_intervals + 1 /\ ~callback_error'

\* By tick 80 after the reset the longest trip has wrapped: its index is
\* below the unwrapped elapsed * step.
WrapsWithin80 ==
    (Advanced /\ cycle_start_store # None /\ Elapsed >= 80) =>
        \A i \in Slots : Longest(i) => ShownIndex(i) < Elapsed * ClaimedStep

MaxRows == 3            \* rows of a CSV file in SpecStore

\* The (vehicle, trip) pairs and the 'Timestamp(ms)' cells a row may hold.
StoreKeys == {<<455, 1197>>, <<455, 1648>>, <<10, 1197>>}
StoreCells == {None, Some(1), Some(2)}

\* Every file of up to MaxRows rows; a row's Latitude is its line in the file.
CsvInputs ==
    UNION {
        {[k \in 1 .. n |->
            Row(c[k][1][1], c[k][1][2], c[k][2], k, 0, 0, 0, 0, 0, 0)] :
         c \in [1 .. n -> StoreKeys \X StoreCells]} :
        n \in 0 .. MaxRows}

QueryTripData(v, t) ==
    /\ query' = [fn |-> "get_trip_data", vehicle_id |-> v, trip_id |-> t,
                 rows |-> get_trip_data(df, v, t), ids |-> <<>>]
    /\ UNCHANGED <<csv, df, dashVars, rtVars>>

QueryAllVehicles ==
    /\ query' = [fn |-> "get_all_vehicles", vehicle_id |-> None, trip_id |-> None,
                 rows |-> <<>>, ids |-> get_all_vehicles(df)]
    /\ UNCHANGED <<csv, df, dashVars, rtVars>>

QueryTripsForVehicle(v) ==
    /\ query' = [fn |-> "get_trips_for_vehicle", vehicle_id |-> v, trip_id |-> None,
                 rows |-> <<>>, ids |-> get_trips_for_vehicle(df, v)]
    /\ UNCHANGED <<csv, df, dashVars, rtVars>>

StoreVehicleIds == {None} \cup {Some(k[1]) : k \in StoreKeys}
StoreTripIds == {None} \cup {Some(k[2]) : k \in StoreKeys}

InitStore == (\E file \in CsvInputs : InitDash(file)) /\ InitRt

NextStore ==
    \/ \E v \in StoreVehicleIds : \E t \in StoreTripIds : QueryTripData(v, t)
    \/ QueryAllVehicles
    \/ \E v \in StoreVehicleIds : QueryTripsForVehicle(v)

SpecStore == InitStore /\ [][NextStore]_vars

(***************************************************************************)
(* C9  TelemetryStore ordering                                             *)
(***************************************************************************)

\* The rows of the file that the load keeps: those with a usable timestamp.
LoadedRows == dropna(with_timestamp(csv))

BagOfSeq(s) == [x \in Range(s) |-> Cardinality({k \in DOMAIN s : s[k] = x})]

StrictlyAscending(ids) == \A j, k \in DOMAIN ids : j < k => ids[j] < ids[k]

\* C9: get_trip_data returns exactly the loaded rows of that vehicle and
\* trip (each as often as loaded, none when no row matches) in ascending
\* timestamp order; get_all_vehicles and get_trips_for_vehicle return the
\* ids present, ascending and without duplicates.
StoreOrdering ==
    /\ query.fn = "get_trip_data" =>
        /\ \A j, k \in DOMAIN query.rows :
              j < k => query.rows[j].Timestamp[1] <= query.rows[k].Timestamp[1]
        /\ BagOfSeq(query.rows) =
              BagOfSeq(SelectSeq(LoadedRows,
                  LAMBDA r : Some(r.VehId) = query.vehicle_id
                             /\ Some(r.Trip) = query.trip_id))
    /\ query.fn = "get_all_vehicles" =>
        /\ StrictlyAscending(query.ids)
        /\ Range(query.ids) = {r.VehId : r \in Range(LoadedRows)}
    /\ query.fn = "get_trips_for_vehicle" =>
        /\ StrictlyAscending(query.ids)
        /\ Range(query.ids) =
              {r.Trip : r \in {q \in Range(LoadedRows) : Some(q.VehId) = query.vehicle_id}}

\* A trip query that returned two rows which the file holds in the other
\* order, from a file with a row the load dropped.
StoreOrderingWitness ==
    /\ query.fn = "get_trip_data"
    /\ Len(query.rows) = 2
    /\ query.rows[1].Latitude > query.rows[2].Latitude
    /\ query.rows[1].Timestamp # query.rows[2].Timestamp
    /\ Len(df) < Len(csv)

(***************************************************************************)
(* The round-trip PlaybackEngine, from its description (sections 3 and 4.2 *)
(* of the specification). main_dashboard.py does not hold it:              *)
(* update_multi_trip_dashboard is the looping variant and keeps no         *)
(* direction, offsets or cycle count. Distances are in metres.             *)
(***************************************************************************)

MaxRtTick == 12         \* ticks of the round-trip engine
MaxRtLen == 3           \* samples of a TripRecord

RtSamples == [cumulativeDistance : {0, 1000}, soc : {40, 20}]

\* TripRecords of the data model: cumulativeDistance starts at 0 and never
\* decreases, stateOfCharge never increases; and the empty record.
RtTrips ==
    UNION {
        {t \in [1 .. n -> RtSamples] :
            /\ n > 0 => t[1].cumulativeDistance = 0
            /\ \A k \in 1 .. n - 1 :
                  /\ t[k].cumulativeDistance <= t[k + 1].cumulativeDistance
                  /\ t[k].soc >= t[k + 1].soc} :
        n \in 0 .. MaxRtLen}

totalDistance(trip) == trip[Len(trip)].cumulativeDistance
socConsumed(trip) == trip[1].soc - trip[Len(trip)].soc

\* reset(tick, vehicleId, tripId): Idle (None) for an empty record.
rt_reset(tick, trip) ==
    IF Len(trip) = 0 THEN None
    ELSE Some([cycleCount |-> 0, distanceOffset |-> 0, socOffset |-> 0,
               legStartTick |-> tick, direction |-> "Forward", halted |-> FALSE])

\* Mutant of cycle_count_after_leg: every finished leg counts as a cycle.
cycle_count_every_leg(state) == state.cycleCount + 1

\* Step 3: a finished backward leg closes a cycle, a forward leg does not.
cycle_count_after_leg(state) ==
    IF state.direction = "Backward" THEN state.cycleCount + 1 ELSE state.cycleCount

\* advance, steps 1 to 5: the state returned.
rt_advance(tick, trip, state) ==
    IF state.halted \/ Len(trip) = 0 THEN state
    ELSE LET finished == tick - state.legStartTick >= Len(trip)
             s1 == IF finished
                   THEN [cycleCount |-> cycle_count_after_leg(state),
                         distanceOffset |-> state.distanceOffset + totalDistance(trip),
                         socOffset |-> state.socOffset + socConsumed(trip),
                         legStartTick |-> tick,
                         direction |-> IF state.direction = "Forward"
                                       THEN "Backward" ELSE "Forward",
                         halted |-> FALSE]
                   ELSE state
             elapsed == tick - s1.legStartTick
             index == IF s1.direction = "Forward"
                      THEN Min(elapsed, Len(trip) - 1)
                      ELSE Max(0, Len(trip) - 1 - elapsed)
             soc == IF s1.direction = "Forward"
                    THEN trip[index + 1].soc - s1.socOffset
                    ELSE (trip[1].soc - s1.socOffset)
                         - (trip[index + 1].soc - trip[Len(trip)].soc)
         IN  [s1 EXCEPT !.halted = soc < 0]

InitRoundTrip ==
    /\ InitDash(SmallCsv)
    /\ rt_tick = 0
    /\ rt_trip \in RtTrips
    /\ sim = rt_reset(0, rt_trip)

\* A tick: exactly one advance.
RtAdvance ==
    /\ rt_tick < MaxRtTick
    /\ rt_tick' = rt_tick + 1
    /\ sim' = IF sim = None THEN None ELSE Some(rt_advance(rt_tick + 1, rt_trip, sim[1]))
    /\ UNCHANGED <<rt_trip, storeVars, dashVars>>

\* A selection change: reset with the record of the new selection.
RtReset(trip) ==
    /\ trip # rt_trip
    /\ rt_trip' = trip
    /\ sim' = rt_reset(rt_tick, trip)
    /\ UNCHANGED <<rt_tick, storeVars, dashVars>>

NextRoundTrip ==
    \/ RtAdvance
    \/ \E trip \in RtTrips : RtReset(trip)

SpecRoundTrip == InitRoundTrip /\ [][NextRoundTrip]_vars

(***************************************************************************)
(* C7  Round-trip accumulation                                             *)
(***************************************************************************)

\* C7: over an advance with no reset, distanceOffset and socOffset do not
\* decrease, and cycleCount grows by exactly 1 when a backward leg (which a
\* forward leg preceded) ends after all its samples, and not otherwise.
RoundTripAccumulation ==
    [][(rt_tick' = rt_tick + 1 /\ sim # None) =>
        /\ sim' # None
        /\ sim'[1].distanceOffset >= sim[1].distanceOffset
        /\ sim'[1].socOffset >= sim[1].socOffset
        /\ IF sim[1].direction = "Backward" /\ sim'[1].direction = "Forward"
           THEN /\ sim'[1].cycleCount = sim[1].cycleCount + 1
                /\ rt_tick' - sim[1].legStartTick >= Len(rt_trip)
           ELSE sim'[1].cycleCount = sim[1].cycleCount]_vars

\* A full cycle is done and both offsets have grown.
RoundTripAccumulationWitness ==
    /\ sim # None
    /\ sim[1].cycleCount >= 1
    /\ sim[1].distanceOffset > 0
    /\ sim[1].socOffset > 0

(***************************************************************************)
(* C11  Index bounds                                                       *)
(***************************************************************************)

\* The shared index of the present inputs, before the clamp of each slot.
SharedIndex == current_data_index(n_intervals, cycle_start_store, MaxDuration)

\* C11: in every reachable state no call of update_multi_trip_dashboard has
\* raised, the index the callback computes from the present inputs for a
\* non-empty slot lies in 0 .. duration - 1, and after a call the path drawn
\* for the slot ends at exactly that sample of its trip.
IndexBounds ==
    /\ ~callback_error
    /\ \A i \in Slots :
          Duration(i) > 0 =>
            /\ 0 <= ComputedIndex(i)
            /\ ComputedIndex(i) <= Duration(i) - 1
            /\ iloc_in_bounds(SlotTrip(i), ComputedIndex(i))
            /\ Advanced => /\ HasPath(i)
                           /\ ShownIndex(i) = ComputedIndex(i)
                           /\ ShownIndex(i) \in 0 .. Duration(i) - 1

\* A call has run with a stored start tick while the shared index lay past
\* the end of the shorter trip, which is shown at its last sample.
IndexBoundsWitness ==
    /\ Advanced
    /\ cycle_start_store # None
    /\ \E i \in Slots :
          /\ Duration(i) > 0
          /\ SharedIndex > Duration(i) - 1
          /\ ShownIndex(i) = Duration(i) - 1

\* A call has run with no stored start tick and drew a non-empty slot.
IndexBoundsNoStoreWitness ==
    /\ Advanced
    /\ cycle_start_store = None
    /\ \E i \in Slots : Duration(i) > 0 /\ ShownIndex(i) = 0

====
